---- MODULE Spec2Model ----
(***************************************************************************)
(* Lifecycle model of the expo-audio-stream native modules.                *)
(*                                                                         *)
(* Android (ExpoAudioStreamModule.kt): three execution contexts share the  *)
(* module's fields without synchronisation: the module queue running the   *)
(* AsyncFunctions (thread "api"), the main looper running the audio focus  *)
(* listener (thread "main"), and the capture coroutines on Dispatchers.IO. *)
(* Each action is one contiguous block of source lines; the blocks of one  *)
(* handler run in order, blocks of different contexts interleave.          *)
(*                                                                         *)
(* iOS (ExpoAudioStreamModule.swift, src/unnamed/part_000): the handlers   *)
(* are short and are modelled as one action each.                          *)
(*                                                                         *)
(* Environment assumptions: appContext.reactContext is non-null while the  *)
(* module is in use; field accesses are sequentially consistent.           *)
(*                                                                         *)
(* Three specifications share the module. Spec follows the lifecycle and   *)
(* abstracts from the contents of the blocks. PipeSpec follows the blocks  *)
(* of one running session through read, gain, conversion, encoding and     *)
(* sendEvent, with the contents of each block. FnSpec applies the block    *)
(* functions (calculateRMS, shortArrayToBase64, audioBufferToBase64) to    *)
(* arguments drawn from bounded sets. Floating point samples and gains are *)
(* fixed point numbers in units of 1/One; amplitudes are in units of       *)
(* 1/Int16Max, rounded down, or "NaN".                                     *)
(***************************************************************************)
EXTENDS Integers, Sequences, FiniteSets, TLC

\* ------------------------------------------------------------------------
\* Bounds of the model
\* ------------------------------------------------------------------------

\* capture coroutines that exist at the same time
MaxLoops == 2

\* live AudioRecord objects the module no longer references
MaxLeakedRecords == 1

\* held WakeLock objects the module no longer references
MaxLeakedLocks == 1

\* samples of one block
MaxLen == 2

\* channels of a tap buffer
MaxChannels == 2

\* events sent and not yet consumed by the JavaScript listener
MaxPending == 2

\* runs of handleToggleRecording that wait in an await at the same time
MaxHandlers == 2

\* MAX_SAMPLES of the App components (50 in part_002, 30 in part_003): the
\* length of the amplitude history, kept short here
MAX_SAMPLES == 3

\* 1.0 in the fixed point representation of Float samples and gains
One == 8

\* the normalisation constant of calculateRMS
Int16Max == 32767

LoopIds == 1..MaxLoops
Handlers == 1..MaxHandlers
Threads == {"api", "main"}

StartErrors ==
  {"E_ALREADY_RECORDING", "E_NO_PERMISSION", "E_AUDIO_FOCUS",
   "E_AUDIO_RECORD_INIT", "E_START_RECORDING"}

StartResults == StartErrors \cup {"ok"}

VARIABLES
  platform,          \* "android" | "ios": which native module is running
  permission,        \* RECORD_AUDIO / recordPermission is granted
  isRecording,       \* the module's isRecording field
  audioRecord,       \* Kotlin field audioRecord: "null", or the state of the
                     \* object it references: "uninit" | "stopped" |
                     \* "recording" | "released"
  leakedRecords,     \* initialised, unreleased AudioRecord objects that the
                     \* field no longer references
  loops,             \* the capture coroutines: slot -> [pc, cancelled, h, job,
                     \* blk]; job marks the one the field recordingJob
                     \* references, blk is the age rank (1 = read first) of
                     \* the block the coroutine holds between read and sendEvent
  wakeLock,          \* Kotlin field wakeLock: "held" when it references a
                     \* held lock, else "none"
  leakedLocks,       \* held WakeLock objects the field no longer references
  serviceRunning,    \* AudioStreamService is started
  audioFocusRequest, \* Kotlin field audioFocusRequest is non-null
  focusState,        \* the listener's focus: "none" | "held" | "lostTransient" | "lost"
  audioEngine,       \* Swift field audioEngine: "nil" | "stopped" | "running" | "paused"
  tapInstalled,      \* a tap is installed on the retained engine's input node
  observer,          \* handleInterruption is registered with NotificationCenter
  interrupted,       \* AVAudioSession is inside an interruption
  pc,                \* thread -> position in its handler
  result,            \* outcome of the call the api thread has just finished
  scen,              \* progress along [start ok, LostTransient, Gained]; -1: left it
  hwStarts,          \* calls that start the hardware stream (AudioRecord
                     \* startRecording, AVAudioEngine start) while scen >= 0
  hwStops,           \* calls that stop or pause it, while scen >= 0
  lossActive,        \* a LOSS handler is ending a session that was Active,
                     \* and no API call has run since it began
  idleStop,          \* the api thread runs a stopRecording() that was called
                     \* in state Idle, and no focus event has arrived since
  sessionNotice,     \* the event the module has sent to tell the consumer that
                     \* the session ended, "none" when it has sent none
  buffer,            \* Kotlin: the loop's ShortArray; Swift: the Int16 samples
                     \* of finalBuffer
  readSize,          \* Kotlin: readResult; Swift: finalBuffer.frameLength
  finalFormat,       \* Swift: "int16" | "float32", the sample format of
                     \* finalBuffer; "none" outside processAudioBuffer
  tap,               \* Swift: the buffer as the tap delivered it:
                     \* [format, nch, samples], every channel carrying samples
  fchan,             \* Swift: floatChannelData of the tap buffer, channel ->
                     \* samples, as the gain loop has rewritten it so far
  gi,                \* Swift: the gain loop's index i (1-based)
  gainsUsed,         \* the values of inputGain the gain loop has read for
                     \* the current block
  inputGain,         \* Swift field inputGain
  conv,              \* Swift: how the conversion of the current block ended
  lastEvent,         \* the onAudioStream event sent for the current block
  pending,           \* onAudioStream events sent and not yet consumed
  ppc,               \* position of the block pipeline
  ret,               \* FnSpec: the function applied last and its result
  app,               \* AppSpec: the App component that is mounted: "gain"
                     \* (part_002 line 24), "transcription" (part_002 line
                     \* 350), "basic" (part_003 line 17)
  uiIsRecording,     \* the App's state isRecording (useState)
  apc,               \* run of handleToggleRecording -> its position: "idle" |
                     \* "permission" | "starting" | "stopping"
  permStatus,        \* run -> what requestPermissionsAsync() returned to it,
                     \* "none" before it returns
  visualizerData     \* the App's shared value visualizerData: the amplitude
                     \* history drawn as the waveform

\* the variables of the block pipeline
pipeVars ==
  <<buffer, readSize, finalFormat, tap, fchan, gi, gainsUsed, inputGain, conv,
    lastEvent, pending, ppc, ret>>

\* the variables of the lifecycle, platform excepted
lifeVars ==
  <<permission, isRecording, audioRecord, leakedRecords, loops,
    wakeLock, leakedLocks, serviceRunning, audioFocusRequest, focusState,
    audioEngine, tapInstalled, observer, interrupted, pc, result, scen,
    hwStarts, hwStops, lossActive, idleStop, sessionNotice>>

\* the variables of the application
appVars == <<app, uiIsRecording, apc, permStatus, visualizerData>>

vars == <<platform, lifeVars, pipeVars, appVars>>

androidVars ==
  <<audioRecord, leakedRecords, loops, wakeLock, leakedLocks, serviceRunning,
    audioFocusRequest, focusState>>

iosVars == <<audioEngine, tapInstalled, observer, interrupted>>

scenVars == <<scen, hwStarts, hwStops>>

\* a slot without a coroutine
NoLoop ==
  [pc |-> "off", cancelled |-> FALSE, h |-> "none", job |-> FALSE, blk |-> 0]

\* no event has been sent for the current block
NoEvent == [sent |-> FALSE, data |-> <<>>, amplitude |-> 0]

\* no block is in the pipeline: line 110 (Kotlin) allocates a zeroed
\* ShortArray, line 8 (Swift) sets inputGain to 1.0
PipeIdle ==
  /\ buffer = [i \in 1..MaxLen |-> 0]
  /\ readSize = 0
  /\ finalFormat = "none"
  /\ tap = [format |-> "none", nch |-> 0, samples |-> <<>>]
  /\ fchan = <<>>
  /\ gi = 0
  /\ gainsUsed = {}
  /\ inputGain = One
  /\ conv = "none"
  /\ lastEvent = NoEvent
  /\ pending = 0
  /\ ppc = "idle"
  /\ ret = [fn |-> "none", v |-> 0]

\* the module after construction, nothing recording
LifeIdle ==
  /\ isRecording = FALSE
  /\ audioRecord = "null"
  /\ leakedRecords = 0
  /\ loops = [i \in LoopIds |-> NoLoop]
  /\ wakeLock = "none"
  /\ leakedLocks = 0
  /\ serviceRunning = FALSE
  /\ audioFocusRequest = FALSE
  /\ focusState = "none"
  /\ audioEngine = "nil"
  /\ tapInstalled = FALSE
  /\ observer = FALSE
  /\ interrupted = FALSE
  /\ pc = [t \in Threads |-> "idle"]
  /\ result = "none"
  /\ scen = 0
  /\ hwStarts = 0
  /\ hwStops = 0
  /\ lossActive = FALSE
  /\ idleStop = FALSE
  /\ sessionNotice = "none"

\* part_002 lines 31, 57, 363, 429, part_003 lines 23, 49:
\* new Array(MAX_SAMPLES).fill(0)
ZeroHistory == [k \in 1..MAX_SAMPLES |-> 0]

\* the App after its first render, no handler running
AppIdle ==
  /\ app \in {"gain", "transcription", "basic"}
  /\ uiIsRecording = FALSE
  /\ apc = [h \in Handlers |-> "idle"]
  /\ permStatus = [h \in Handlers |-> "none"]
  /\ visualizerData = ZeroHistory

\* the specifications of the native modules leave the application out
NoApp ==
  /\ app = "basic"
  /\ uiIsRecording = FALSE
  /\ apc = [h \in Handlers |-> "idle"]
  /\ permStatus = [h \in Handlers |-> "none"]
  /\ visualizerData = ZeroHistory

Init ==
  /\ PipeIdle
  /\ NoApp
  /\ platform \in {"android", "ios"}
  /\ permission \in BOOLEAN
  /\ isRecording = FALSE
  /\ audioRecord = "null"
  /\ leakedRecords = 0
  /\ loops = [i \in LoopIds |-> NoLoop]
  /\ wakeLock = "none"
  /\ leakedLocks = 0
  /\ serviceRunning = FALSE
  /\ audioFocusRequest = FALSE
  /\ focusState = "none"
  /\ audioEngine = "nil"
  /\ tapInstalled = FALSE
  /\ observer = FALSE
  /\ interrupted = FALSE
  /\ pc = [t \in Threads |-> "idle"]
  /\ result = "none"
  /\ scen = 0
  /\ hwStarts = 0
  /\ hwStops = 0
  /\ lossActive = FALSE
  /\ idleStop = FALSE
  /\ sessionNotice = "none"

\* ------------------------------------------------------------------------
\* Helpers
\* ------------------------------------------------------------------------

\* the AudioRecord object holds the microphone (initialised, not released)
Live(status) == status \in {"stopped", "recording"}

\* Coroutines carry no identity of their own: the slots are kept in one
\* canonical order
LoopKey(l) ==
  (CASE l.pc = "off" -> 0 [] l.pc = "check" -> 100 [] l.pc = "read" -> 200
     [] OTHER -> 300 + 1000 * l.blk)
  + (IF l.job THEN 50 ELSE 0)
  + (IF l.cancelled THEN 10 ELSE 0)
  + (CASE l.h = "none" -> 0 [] l.h = "cur" -> 1 [] l.h = "old" -> 2 [] OTHER -> 3)

Canon(lp) ==
  LET p == CHOOSE q \in Permutations(LoopIds) :
             \A i, j \in LoopIds : i < j => LoopKey(lp[q[i]]) >= LoopKey(lp[q[j]])
  IN [i \in LoopIds |-> lp[p[i]]]

FreeLoops == {i \in LoopIds : loops[i].pc = "off"}

\* what a read in flight refers to once the field's object was replaced
\* (it stays live, unreferenced) or released
Retarget(lp, to) ==
  [i \in LoopIds |-> IF lp[i].h = "cur" THEN [lp[i] EXCEPT !.h = to] ELSE lp[i]]

\* WakeLock objects currently held by the process
HeldLocks == leakedLocks + (IF wakeLock = "held" THEN 1 ELSE 0)

InStop(t) == pc[t] \in {"stop_cancel", "stop_hw", "stop_null", "stop_release"}

InStart == pc["api"] \in {"start_record", "start_hw", "start_loop"}

ApiQuiet == pc["api"] \in {"idle", "done"}

\* The spec's RecordingState, read off the module's fields and the handlers'
\* positions
RecordingState ==
  IF platform = "ios"
  THEN IF ~isRecording THEN "Idle"
       ELSE IF audioEngine = "paused" THEN "Interrupted" ELSE "Active"
  ELSE IF \E t \in Threads : InStop(t) THEN "Stopping"
       ELSE IF InStart THEN "Starting"
       ELSE IF isRecording THEN "Active"
       ELSE IF Live(audioRecord) THEN "Interrupted"
       ELSE "Idle"

\* Scenario bookkeeping: the next position along [start ok, LostTransient,
\* Gained] and the hardware starts (ds) and stops (dp) of this step
Scenario(next, ds, dp) ==
  /\ scen' = next
  /\ hwStarts' = IF next < 0 THEN 0 ELSE hwStarts + ds
  /\ hwStops' = IF next < 0 THEN 0 ELSE hwStops + dp

\* ------------------------------------------------------------------------
\* Android: startRecording (thread "api")
\* ------------------------------------------------------------------------

AlreadyRecordingGuard_Never == FALSE

\* line 54 (Kotlin), line 40 (Swift): if (isRecording)
AlreadyRecordingGuard == isRecording

\* line 61: checkSelfPermission(...) == PERMISSION_GRANTED
PermissionGuard == permission

\* lines 53-64: the two guards before the try block
StartGuards ==
  /\ platform = "android"
  /\ pc["api"] = "idle"
  /\ lossActive' = FALSE
  /\ idleStop' = FALSE
  /\ IF AlreadyRecordingGuard
     THEN /\ result' = "E_ALREADY_RECORDING"
          /\ pc' = [pc EXCEPT !["api"] = "done"]
          /\ Scenario(0 - 1, 0, 0)
     ELSE IF ~PermissionGuard
     THEN /\ result' = "E_NO_PERMISSION"
          /\ pc' = [pc EXCEPT !["api"] = "done"]
          /\ Scenario(0 - 1, 0, 0)
     ELSE /\ result' = "none"
          /\ pc' = [pc EXCEPT !["api"] = "start_keepalive"]
          /\ Scenario(IF scen = 0 /\ pc["main"] = "idle" THEN 0 ELSE 0 - 1, 0, 0)
  /\ UNCHANGED <<pipeVars, appVars, sessionNotice, platform, permission, isRecording, androidVars, iosVars>>

\* lines 181-185: acquireWakeLock overwrites the field with a new held lock
AcquireWakeLock ==
  /\ wakeLock = "held" => leakedLocks < MaxLeakedLocks
  /\ leakedLocks' = IF wakeLock = "held" THEN leakedLocks + 1 ELSE leakedLocks
  /\ wakeLock' = "held"

\* lines 66-73: foreground service, wake lock, audio focus request
StartKeepAlive ==
  /\ pc["api"] = "start_keepalive"
  /\ \E serviceThrows \in BOOLEAN, granted \in BOOLEAN :
       IF serviceThrows
       THEN /\ result' = "E_START_RECORDING"
            /\ pc' = [pc EXCEPT !["api"] = "done"]
            /\ Scenario(0 - 1, 0, 0)
            /\ UNCHANGED <<serviceRunning, wakeLock, leakedLocks,
                           audioFocusRequest, focusState>>
       ELSE /\ serviceRunning' = TRUE
            /\ AcquireWakeLock
            /\ audioFocusRequest' = TRUE
            /\ IF granted
               THEN /\ focusState' = "held"
                    /\ pc' = [pc EXCEPT !["api"] = "start_record"]
                    /\ UNCHANGED <<result, scenVars>>
               ELSE /\ result' = "E_AUDIO_FOCUS"
                    /\ pc' = [pc EXCEPT !["api"] = "done"]
                    /\ Scenario(0 - 1, 0, 0)
                    /\ UNCHANGED focusState
  /\ UNCHANGED <<pipeVars, appVars, sessionNotice, platform, permission, isRecording, audioRecord, leakedRecords,
                 loops, iosVars, lossActive, idleStop>>

\* lines 75-86: construct the AudioRecord, store it in the field (the object
\* the field referenced before is not released) and check that it initialised
StartRecord ==
  /\ pc["api"] = "start_record"
  /\ \E outcome \in {"throws", "uninit", "stopped"} :
       IF outcome = "throws"
       THEN /\ result' = "E_START_RECORDING"
            /\ pc' = [pc EXCEPT !["api"] = "done"]
            /\ Scenario(0 - 1, 0, 0)
            /\ UNCHANGED <<audioRecord, leakedRecords, loops>>
       ELSE /\ Live(audioRecord) => leakedRecords < MaxLeakedRecords
            /\ leakedRecords' = IF Live(audioRecord) THEN leakedRecords + 1
                                ELSE leakedRecords
            /\ loops' = Canon(Retarget(loops,
                          IF Live(audioRecord) THEN "old" ELSE "dead"))
            /\ audioRecord' = outcome
            /\ IF outcome = "uninit"
               THEN /\ result' = "E_AUDIO_RECORD_INIT"
                    /\ pc' = [pc EXCEPT !["api"] = "done"]
                    /\ Scenario(0 - 1, 0, 0)
               ELSE /\ pc' = [pc EXCEPT !["api"] = "start_hw"]
                    /\ UNCHANGED <<result, scenVars>>
  /\ UNCHANGED <<pipeVars, appVars, sessionNotice, platform, permission, isRecording, wakeLock, leakedLocks,
                 serviceRunning, audioFocusRequest, focusState, iosVars,
                 lossActive, idleStop>>

\* lines 88-89: audioRecord?.startRecording(); isRecording = true
StartHardware ==
  /\ pc["api"] = "start_hw"
  /\ IF audioRecord \in {"uninit", "released"}
     THEN \* startRecording() throws IllegalStateException, caught at line 93
          /\ result' = "E_START_RECORDING"
          /\ pc' = [pc EXCEPT !["api"] = "done"]
          /\ Scenario(0 - 1, 0, 0)
          /\ UNCHANGED <<isRecording, audioRecord>>
     ELSE /\ isRecording' = TRUE
          /\ pc' = [pc EXCEPT !["api"] = "start_loop"]
          /\ IF audioRecord = "null"
             THEN UNCHANGED <<audioRecord, scenVars>>
             ELSE /\ audioRecord' = "recording"
                  /\ Scenario(scen, 1, 0)
          /\ UNCHANGED result
  /\ UNCHANGED <<pipeVars, appVars, sessionNotice, platform, permission, leakedRecords, loops, wakeLock,
                 leakedLocks, serviceRunning, audioFocusRequest, focusState,
                 iosVars, lossActive, idleStop>>

\* lines 108-109: startRecordingLoop launches a coroutine and stores its Job
\* in recordingJob
LaunchLoop(lp) ==
  LET i == CHOOSE j \in LoopIds : lp[j].pc = "off"
  IN Canon([j \in LoopIds |->
              IF j = i
              THEN [pc |-> "check", cancelled |-> FALSE, h |-> "none",
                    job |-> TRUE, blk |-> 0]
              ELSE [lp[j] EXCEPT !.job = FALSE]])

\* lines 91-92: startRecordingLoop(); promise.resolve(null)
StartLoop ==
  /\ pc["api"] = "start_loop"
  /\ FreeLoops # {}
  /\ loops' = LaunchLoop(loops)
  /\ result' = "ok"
  /\ pc' = [pc EXCEPT !["api"] = "done"]
  /\ Scenario(IF scen = 0 THEN 1 ELSE 0 - 1, 0, 0)
  /\ UNCHANGED <<pipeVars, appVars, sessionNotice, platform, permission, isRecording, audioRecord, leakedRecords,
                 wakeLock, leakedLocks, serviceRunning, audioFocusRequest,
                 focusState, iosVars, lossActive, idleStop>>

\* the caller's await returns: the promise's outcome has been consumed
ApiAck ==
  /\ pc["api"] = "done"
  /\ pc' = [pc EXCEPT !["api"] = "idle"]
  /\ result' = "none"
  /\ UNCHANGED <<pipeVars, appVars, sessionNotice, platform, permission, isRecording, androidVars, iosVars,
                 scenVars, lossActive, idleStop>>

\* ------------------------------------------------------------------------
\* Android: the capture coroutine (Dispatchers.IO)
\* ------------------------------------------------------------------------

\* lines 112-113: the while condition, then the field is loaded for read()
LoopCheck(i) ==
  /\ loops[i].pc = "check"
  /\ IF ~loops[i].cancelled /\ isRecording
     THEN \* audioRecord?.read(...) ?: -1 : a null field yields -1 at once
          loops' = IF audioRecord = "null" THEN loops
                   ELSE Canon([loops EXCEPT
                           ![i].pc = "read",
                           ![i].h = IF Live(audioRecord) THEN "cur" ELSE "dead"])
     ELSE loops' = Canon([loops EXCEPT ![i] = NoLoop])
  /\ UNCHANGED <<pipeVars, appVars, sessionNotice, platform, permission, isRecording, audioRecord, leakedRecords,
                 wakeLock, leakedLocks, serviceRunning, audioFocusRequest,
                 focusState, iosVars, pc, result, scenVars, lossActive,
                 idleStop>>

\* the coroutines that hold a block they have read and not yet sent
Holding(lp) == {j \in LoopIds : lp[j].pc = "emit"}

\* the held blocks' age ranks renumbered 1..k, their order kept
Rerank(lp) ==
  [j \in LoopIds |->
     IF lp[j].pc = "emit"
     THEN [lp[j] EXCEPT !.blk =
             1 + Cardinality({k \in Holding(lp) : lp[k].blk < lp[j].blk})]
     ELSE lp[j]]

\* lines 113-115: read() returns. A handle that is not initialised or was
\* released yields an error code; a live one yields a block (readResult > 0)
\* or an error code or 0. A result that is not positive is skipped and the
\* loop goes back to its while condition
LoopRead(i) ==
  /\ loops[i].pc = "read"
  /\ \E readResult \in {0 - 1, 1} :
       /\ readResult > 0 => loops[i].h \in {"cur", "old"}
       /\ loops' =
            IF readResult > 0
            THEN Canon([Rerank(loops) EXCEPT
                          ![i].pc = "emit", ![i].h = "none",
                          ![i].blk = Cardinality(Holding(loops)) + 1])
            ELSE Canon([loops EXCEPT ![i].pc = "check", ![i].h = "none"])
  /\ UNCHANGED <<pipeVars, appVars, sessionNotice, platform, permission, isRecording, audioRecord, leakedRecords,
                 wakeLock, leakedLocks, serviceRunning, audioFocusRequest,
                 focusState, iosVars, pc, result, scenVars, lossActive,
                 idleStop>>

\* lines 116-122: the block is encoded, its RMS computed and the event sent
LoopEmit(i) ==
  /\ loops[i].pc = "emit"
  /\ loops' = Canon([loops EXCEPT ![i].pc = "check", ![i].blk = 0])
  /\ UNCHANGED <<pipeVars, appVars, sessionNotice, platform, permission, isRecording, audioRecord, leakedRecords,
                 wakeLock, leakedLocks, serviceRunning, audioFocusRequest,
                 focusState, iosVars, pc, result, scenVars, lossActive,
                 idleStop>>

\* ------------------------------------------------------------------------
\* Android: stopRecording (thread "api" from the AsyncFunction, thread
\* "main" from the focus listener)
\* ------------------------------------------------------------------------

\* line 129: isRecording = false
StopFlag(t) ==
  /\ isRecording' = FALSE
  /\ pc' = [pc EXCEPT ![t] = "stop_cancel"]

\* lines 98-99 and 129: the AsyncFunction calls stopRecording()
StopRecordingCall ==
  /\ platform = "android"
  /\ pc["api"] = "idle"
  /\ StopFlag("api")
  /\ result' = "none"
  /\ lossActive' = FALSE
  /\ idleStop' = (RecordingState = "Idle" /\ pc["main"] = "idle")
  /\ Scenario(0 - 1, 0, 0)
  /\ UNCHANGED <<pipeVars, appVars, sessionNotice, platform, permission, androidVars, iosVars>>

\* line 130: recordingJob?.cancel()
StopCancel(t) ==
  /\ pc[t] = "stop_cancel"
  /\ loops' = Canon([i \in LoopIds |->
                       IF loops[i].job THEN [loops[i] EXCEPT !.cancelled = TRUE]
                       ELSE loops[i]])
  /\ pc' = [pc EXCEPT ![t] = "stop_hw"]
  /\ UNCHANGED <<pipeVars, appVars, sessionNotice, platform, permission, isRecording, audioRecord, leakedRecords,
                 wakeLock, leakedLocks, serviceRunning, audioFocusRequest,
                 focusState, iosVars, result, scenVars, lossActive, idleStop>>

\* lines 132-137: audioRecord?.stop(); audioRecord?.release(), exceptions
\* logged. stop() throws on an AudioRecord that is not initialised or was
\* released, and release() is then skipped
StopHardware(t) ==
  /\ pc[t] = "stop_hw"
  /\ pc' = [pc EXCEPT ![t] = "stop_null"]
  /\ IF Live(audioRecord)
     THEN /\ audioRecord' = "released"
          /\ loops' = Canon(Retarget(loops, "dead"))
          /\ Scenario(scen, 0, 1)
     ELSE UNCHANGED <<audioRecord, loops, scenVars>>
  /\ UNCHANGED <<pipeVars, appVars, sessionNotice, platform, permission, isRecording, leakedRecords, wakeLock,
                 leakedLocks, serviceRunning, audioFocusRequest, focusState,
                 iosVars, result, lossActive, idleStop>>

\* line 138: audioRecord = null
StopNull(t) ==
  /\ pc[t] = "stop_null"
  /\ Live(audioRecord) => leakedRecords < MaxLeakedRecords
  /\ leakedRecords' = IF Live(audioRecord) THEN leakedRecords + 1
                      ELSE leakedRecords
  /\ loops' = Canon(Retarget(loops, IF Live(audioRecord) THEN "old" ELSE "dead"))
  /\ audioRecord' = "null"
  /\ pc' = [pc EXCEPT ![t] = "stop_release"]
  /\ UNCHANGED <<pipeVars, appVars, sessionNotice, platform, permission, isRecording, wakeLock, leakedLocks,
                 serviceRunning, audioFocusRequest, focusState, iosVars,
                 result, scenVars, lossActive, idleStop>>

\* lines 187-192: releaseWakeLock releases the lock if held, clears the field
ReleaseWakeLock == wakeLock' = "none"

\* lines 175-178: stopForegroundService
StopForegroundService == serviceRunning' = FALSE

\* lines 234-242: abandonAudioFocus (API level 26 and later)
AbandonAudioFocus ==
  focusState' = IF audioFocusRequest THEN "none" ELSE focusState

\* lines 140-142: releaseWakeLock(); stopForegroundService();
\* abandonAudioFocus(); then stopRecording returns
StopKeepAlive(t) ==
  /\ pc[t] = "stop_release"
  /\ ReleaseWakeLock
  /\ StopForegroundService
  /\ AbandonAudioFocus
  /\ IF t = "api"
     THEN /\ pc' = [pc EXCEPT ![t] = "done"]
          /\ result' = "stopped"
          /\ UNCHANGED lossActive
          /\ idleStop' = FALSE
     ELSE /\ pc' = [pc EXCEPT ![t] = "idle"]
          /\ lossActive' = FALSE
          /\ UNCHANGED <<result, idleStop>>
  /\ UNCHANGED <<pipeVars, appVars, sessionNotice, platform, permission, isRecording, audioRecord, leakedRecords,
                 loops, leakedLocks, audioFocusRequest, iosVars, scenVars>>

\* ------------------------------------------------------------------------
\* Android: the audio focus listener (thread "main")
\* ------------------------------------------------------------------------

\* line 201: AUDIOFOCUS_LOSS -> stopRecording()
FocusLoss ==
  /\ platform = "android"
  /\ pc["main"] = "idle"
  /\ focusState \in {"held", "lostTransient"}
  /\ focusState' = "lost"
  /\ lossActive' = (RecordingState = "Active" /\ ApiQuiet)
  /\ idleStop' = FALSE
  /\ StopFlag("main")
  /\ Scenario(0 - 1, 0, 0)
  /\ UNCHANGED <<pipeVars, appVars, sessionNotice, platform, permission, audioRecord, leakedRecords, loops,
                 wakeLock, leakedLocks, serviceRunning, audioFocusRequest,
                 iosVars, result>>

\* lines 202-210: AUDIOFOCUS_LOSS_TRANSIENT -> isRecording = false
FocusLossTransient ==
  /\ platform = "android"
  /\ pc["main"] = "idle"
  /\ focusState = "held"
  /\ focusState' = "lostTransient"
  /\ isRecording' = FALSE
  /\ idleStop' = FALSE
  /\ Scenario(IF scen = 1 /\ ApiQuiet THEN 2 ELSE 0 - 1, 0, 0)
  /\ UNCHANGED <<pipeVars, appVars, sessionNotice, platform, permission, audioRecord, leakedRecords, loops,
                 wakeLock, leakedLocks, serviceRunning, audioFocusRequest,
                 iosVars, pc, result, lossActive>>

\* line 212: if (!isRecording && audioRecord != null)
ResumeGuard == ~isRecording /\ audioRecord # "null"

\* lines 211-217: AUDIOFOCUS_GAIN -> resume if a handle is retained.
\* startRecording() throws IllegalStateException on an AudioRecord that is
\* not initialised or was released; nothing on the main looper catches it
\* and the process dies, taking the coroutines, the locks, the AudioRecord
\* objects and the focus registration with it (the START_STICKY service is
\* left to the system)
FocusGain ==
  /\ platform = "android"
  /\ pc["main"] = "idle"
  /\ focusState = "lostTransient"
  /\ idleStop' = FALSE
  /\ IF ~ResumeGuard
     THEN /\ focusState' = "held"
          /\ Scenario(IF scen = 2 /\ ApiQuiet THEN 3 ELSE 0 - 1, 0, 0)
          /\ UNCHANGED <<isRecording, audioRecord, leakedRecords, loops,
                         wakeLock, leakedLocks, pc, result, lossActive>>
     ELSE IF ~Live(audioRecord)
     THEN /\ pc' = [t \in Threads |-> "crashed"]
          /\ isRecording' = FALSE
          /\ audioRecord' = "null"
          /\ leakedRecords' = 0
          /\ loops' = [i \in LoopIds |-> NoLoop]
          /\ wakeLock' = "none"
          /\ leakedLocks' = 0
          /\ focusState' = "none"
          /\ result' = "none"
          /\ lossActive' = FALSE
          /\ Scenario(0 - 1, 0, 0)
     ELSE /\ FreeLoops # {}
          /\ focusState' = "held"
          /\ isRecording' = TRUE
          /\ audioRecord' = "recording"
          /\ loops' = LaunchLoop(loops)
          /\ Scenario(IF scen = 2 /\ ApiQuiet THEN 3 ELSE 0 - 1, 1, 0)
          /\ UNCHANGED <<leakedRecords, wakeLock, leakedLocks, pc, result,
                         lossActive>>
  /\ UNCHANGED <<pipeVars, appVars, sessionNotice, platform, permission, serviceRunning, audioFocusRequest,
                 iosVars>>

\* ------------------------------------------------------------------------
\* Android: the platform
\* ------------------------------------------------------------------------

\* line 184: acquire(10*60*1000L): a held lock is released by the system
\* when its timeout expires
WakeLockTimeout ==
  /\ platform = "android"
  /\ \/ /\ wakeLock = "held"
        /\ wakeLock' = "none"
        /\ UNCHANGED leakedLocks
     \/ /\ leakedLocks > 0
        /\ leakedLocks' = leakedLocks - 1
        /\ UNCHANGED wakeLock
  /\ UNCHANGED <<pipeVars, appVars, sessionNotice, platform, permission, isRecording, audioRecord, leakedRecords,
                 loops, serviceRunning, audioFocusRequest, focusState, iosVars,
                 pc, result, scenVars, lossActive, idleStop>>

\* an unreachable AudioRecord that was never released is released by its
\* finalizer
Finalize ==
  /\ leakedRecords > 0
  /\ \A i \in LoopIds : loops[i].h # "old"
  /\ leakedRecords' = leakedRecords - 1
  /\ UNCHANGED <<pipeVars, appVars, sessionNotice, platform, permission, isRecording, audioRecord, loops,
                 wakeLock, leakedLocks, serviceRunning, audioFocusRequest,
                 focusState, iosVars, pc, result, scenVars, lossActive,
                 idleStop>>

\* the user grants the microphone permission (revoking it ends the process)
PermissionGranted ==
  /\ ~permission
  /\ permission' = TRUE
  /\ UNCHANGED <<pipeVars, appVars, sessionNotice, platform, isRecording, androidVars, iosVars, pc, result,
                 scenVars, lossActive, idleStop>>

\* ------------------------------------------------------------------------
\* iOS: ExpoAudioStreamModule.swift
\* ------------------------------------------------------------------------

\* lines 39-53 with configureAudioSession (65-76) and startAudioEngine
\* (78-105). The record permission is not consulted. configureAudioSession
\* throws before it registers the observer; startAudioEngine throws after
\* the engine is stored (at line 92 before the tap, at line 104 after it)
IosStartRecording ==
  /\ platform = "ios"
  /\ pc["api"] = "idle"
  /\ pc' = [pc EXCEPT !["api"] = "done"]
  /\ IF AlreadyRecordingGuard
     THEN /\ result' = "E_ALREADY_RECORDING"
          /\ Scenario(0 - 1, 0, 0)
          /\ UNCHANGED <<isRecording, audioEngine, tapInstalled, observer>>
     ELSE \E outcome \in {"session_throws", "format_throws", "engine_throws", "ok"} :
            /\ result' = IF outcome = "ok" THEN "ok" ELSE "E_START_RECORDING"
            /\ observer' = IF outcome = "session_throws" THEN observer ELSE TRUE
            /\ audioEngine' = CASE outcome = "session_throws" -> audioEngine
                                [] outcome = "ok" -> "running"
                                [] OTHER -> "stopped"
            /\ tapInstalled' = CASE outcome = "session_throws" -> tapInstalled
                                 [] outcome = "format_throws" -> FALSE
                                 [] OTHER -> TRUE
            /\ isRecording' = (outcome = "ok")
            /\ Scenario(IF outcome = "ok" /\ scen = 0 THEN 1 ELSE 0 - 1,
                        IF outcome = "ok" THEN 1 ELSE 0, 0)
  /\ UNCHANGED <<pipeVars, appVars, sessionNotice, platform, permission, androidVars, interrupted, lossActive,
                 idleStop>>

\* lines 55-58 and 190-196
IosStopRecording ==
  /\ platform = "ios"
  /\ pc["api"] = "idle"
  /\ pc' = [pc EXCEPT !["api"] = "done"]
  /\ result' = "stopped"
  /\ isRecording' = FALSE
  /\ audioEngine' = "nil"
  /\ tapInstalled' = FALSE
  /\ Scenario(0 - 1, 0, 0)
  /\ UNCHANGED <<pipeVars, appVars, sessionNotice, platform, permission, androidVars, observer, interrupted,
                 lossActive, idleStop>>

\* lines 202-217: .began -> audioEngine?.pause()
IosInterruptionBegan ==
  /\ platform = "ios"
  /\ ~interrupted
  /\ interrupted' = TRUE
  /\ IF observer /\ audioEngine # "nil"
     THEN /\ audioEngine' = IF audioEngine = "running" THEN "paused"
                            ELSE audioEngine
          /\ Scenario(IF scen = 1 /\ ApiQuiet THEN 2 ELSE 0 - 1, 0, 1)
     ELSE /\ UNCHANGED audioEngine
          /\ Scenario(0 - 1, 0, 0)
  /\ UNCHANGED <<pipeVars, appVars, sessionNotice, platform, permission, isRecording, androidVars, tapInstalled,
                 observer, pc, result, lossActive, idleStop>>

\* lines 219-225: .ended -> try? audioEngine?.start() when the options
\* contain .shouldResume; a failing start() is swallowed by try?
IosInterruptionEnded ==
  /\ platform = "ios"
  /\ interrupted
  /\ interrupted' = FALSE
  /\ \E shouldResume \in BOOLEAN, started \in BOOLEAN :
       IF observer /\ shouldResume /\ started /\ audioEngine # "nil"
       THEN /\ audioEngine' = "running"
            /\ Scenario(IF scen = 2 /\ ApiQuiet THEN 3 ELSE 0 - 1, 1, 0)
       ELSE /\ UNCHANGED audioEngine
            /\ Scenario(0 - 1, 0, 0)
  /\ UNCHANGED <<pipeVars, appVars, sessionNotice, platform, permission, isRecording, androidVars, tapInstalled,
                 observer, pc, result, lossActive, idleStop>>

\* ------------------------------------------------------------------------
\* The system
\* ------------------------------------------------------------------------

Next ==
  \/ StartGuards
  \/ StartKeepAlive
  \/ StartRecord
  \/ StartHardware
  \/ StartLoop
  \/ ApiAck
  \/ StopRecordingCall
  \/ \E t \in Threads : StopCancel(t)
  \/ \E t \in Threads : StopHardware(t)
  \/ \E t \in Threads : StopNull(t)
  \/ \E t \in Threads : StopKeepAlive(t)
  \/ \E i \in LoopIds : LoopCheck(i)
  \/ \E i \in LoopIds : LoopRead(i)
  \/ \E i \in LoopIds : LoopEmit(i)
  \/ FocusLoss
  \/ FocusLossTransient
  \/ FocusGain
  \/ WakeLockTimeout
  \/ Finalize
  \/ PermissionGranted
  \/ IosStartRecording
  \/ IosStopRecording
  \/ IosInterruptionBegan
  \/ IosInterruptionEnded

Spec == Init /\ [][Next]_vars

\* ------------------------------------------------------------------------
\* Properties
\* ------------------------------------------------------------------------

\* both handler threads are between handlers
Quiescent == ApiQuiet /\ pc["main"] = "idle"

\* this step is the api thread entering startRecording()
StartEntry ==
  /\ pc["api"] = "idle"
  /\ \/ pc'["api"] = "start_keepalive"
     \/ pc'["api"] = "done" /\ result' \in StartResults

\* this step is startRecording() returning to its caller
StartReturn ==
  /\ pc["api"] # "done"
  /\ pc'["api"] = "done"
  /\ result' \in StartResults

\* this step is stopRecording() returning to the caller of the AsyncFunction
StopReturn ==
  /\ pc["api"] # "done"
  /\ pc'["api"] = "done"
  /\ result' = "stopped"

\* the wake lock or the foreground service is held through the module
KeepAliveHeld == wakeLock = "held" \/ serviceRunning

\* C1: a startRecording() that finds the recording flag set (a session
\* started earlier is running) is rejected with E_ALREADY_RECORDING and
\* changes nothing: no handle, keep-alive, focus or loop, on either platform
C1_SecondStartRejected ==
  [][(StartEntry /\ isRecording) =>
       /\ pc'["api"] = "done"
       /\ result' = "E_ALREADY_RECORDING"
       /\ UNCHANGED <<isRecording, androidVars, iosVars>>]_vars

\* a second startRecording() has been rejected while the session is Active
C1_Witness ==
  /\ pc["api"] = "done"
  /\ result = "E_ALREADY_RECORDING"
  /\ RecordingState = "Active"
  /\ pc["main"] = "idle"

\* C2: startRecording() is rejected with E_ALREADY_RECORDING and changes
\* nothing whenever the session is Active or Interrupted
C2_StartRejectedWhenNotIdle ==
  [][(StartEntry /\ pc["main"] = "idle"
        /\ RecordingState \in {"Active", "Interrupted"}) =>
       /\ pc'["api"] = "done"
       /\ result' = "E_ALREADY_RECORDING"
       /\ UNCHANGED <<isRecording, androidVars, iosVars>>]_vars

\* C3: when stopRecording() returns, the recording flag is false, the
\* hardware handle is null and the keep-alive is not held
C3_StopEndsIdle ==
  [][StopReturn =>
       /\ ~isRecording'
       /\ audioRecord' = "null"
       /\ audioEngine' = "nil"
       /\ ~KeepAliveHeld']_vars

\* C4: no step of a stopRecording() that was called in state Idle touches
\* the hardware handle, the keep-alive or the audio focus
C4_IdleStopDoesNothing ==
  [][(idleStop /\ pc'["api"] # pc["api"] /\ pc'["api"] # "crashed") =>
       UNCHANGED <<isRecording, audioRecord, leakedRecords, wakeLock,
                   leakedLocks, serviceRunning, focusState>>]_vars

\* C5: between handlers, the keep-alive is held exactly when the state is
\* Starting, Active or Interrupted
C5_KeepAliveIffNotIdle ==
  (platform = "android" /\ Quiescent) =>
    (KeepAliveHeld <=> RecordingState \in {"Starting", "Active", "Interrupted"})

\* C6: when startRecording() returns an error raised after the keep-alive
\* was acquired, the keep-alive is no longer held
C6_FailedStartReleasesKeepAlive ==
  [][(StartReturn /\ pc["api"] \in {"start_keepalive", "start_record", "start_hw"}
        /\ result' \in {"E_AUDIO_FOCUS", "E_AUDIO_RECORD_INIT"}) =>
       ~KeepAliveHeld']_vars

\* C7: a LOSS handler that began in state Active (no API call running
\* meanwhile) nulls the handle only after stopping and releasing it, and
\* returns with the flag false, the handle null, the foreground service
\* stopped and the wake lock released: one held lock fewer if it was held,
\* never more than one release, no unreleased AudioRecord left behind
C7_PermanentLossEndsSession ==
  [][/\ (lossActive /\ pc["main"] = "stop_null" /\ pc'["main"] = "stop_release") =>
          /\ audioRecord = "released"
          /\ audioRecord' = "null"
          /\ leakedRecords' = leakedRecords
     /\ (lossActive /\ pc["main"] = "stop_release" /\ pc'["main"] = "idle") =>
          /\ RecordingState' = "Idle"
          /\ ~isRecording'
          /\ audioRecord' = "null"
          /\ ~KeepAliveHeld'
          /\ HeldLocks' = HeldLocks - (IF wakeLock = "held" THEN 1 ELSE 0)]_vars


\* C8: after [startRecording succeeds, LostTransient, Gained], with every
\* hardware operation accepted, the state is Active and the calls that
\* started the hardware stream are exactly one more than the calls that
\* stopped or paused it
C8_ResumeKeepsOneStream ==
  (scen = 3 /\ pc["main"] = "idle") =>
    (RecordingState = "Active" /\ hwStarts = hwStops + 1)


\* C9: a startRecording() made without the microphone permission is
\* rejected with E_NO_PERMISSION and acquires nothing
C9_NoStartWithoutPermission ==
  [][(StartEntry /\ ~permission) =>
       /\ pc'["api"] = "done"
       /\ result' = "E_NO_PERMISSION"
       /\ UNCHANGED <<isRecording, androidVars, iosVars>>]_vars

\* C10: after startRecording() returns an error other than
\* E_ALREADY_RECORDING the flag is false, no hardware handle is retained and
\* no capture loop runs
C10_FailedStartLeavesIdle ==
  [][(StartReturn /\ result' \in StartErrors \ {"E_ALREADY_RECORDING"}) =>
       /\ ~isRecording'
       /\ audioRecord' = "null"
       /\ audioEngine' = "nil"
       /\ \A i \in LoopIds : loops'[i].pc = "off"]_vars

\* ------------------------------------------------------------------------
\* The block functions
\* ------------------------------------------------------------------------

\* 16-bit sample values and Float samples and gains (units of 1/One) that
\* the blocks are drawn from
Int16Values == {0 - 32768, 0, 258, 32767}

FloatValues == {0 - 6, 4, 6}

GainValues == {4, 8, 16}

\* a Double or Float result: NaN, or v
NaN == [nan |-> TRUE, v |-> 0]

Num(x) == [nan |-> FALSE, v |-> x]

RECURSIVE SumQuot(_, _, _)
\* the sum over i < n of (buf[i] * buf[i]) \div d
SumQuot(buf, n, d) ==
  IF n = 0 THEN 0 ELSE SumQuot(buf, n - 1, d) + ((buf[n] * buf[n]) \div d)

RECURSIVE SumRem(_, _, _)
\* the sum over i < n of (buf[i] * buf[i]) % d
SumRem(buf, n, d) ==
  IF n = 0 THEN 0 ELSE SumRem(buf, n - 1, d) + ((buf[n] * buf[n]) % d)

\* lines 146-150 (Kotlin), 170-176 (Swift): sum += sample * sample over the
\* first n samples, then mean = sum / n in Double arithmetic: 0.0 / 0 is NaN.
\* The sum exceeds 32 bits, so the whole part of the mean is computed from
\* the quotients and remainders of the squares
Mean(buf, n) ==
  IF n = 0 THEN NaN
  ELSE Num(SumQuot(buf, n, n) + (SumRem(buf, n, n) \div n))

RECURSIVE SqrtSearch(_, _, _)
\* the largest r in lo..hi with r * r <= x
SqrtSearch(x, lo, hi) ==
  IF lo = hi THEN lo
  ELSE LET mid == (lo + hi + 1) \div 2
       IN IF mid * mid <= x THEN SqrtSearch(x, mid, hi)
          ELSE SqrtSearch(x, lo, mid - 1)

\* lines 151 (Kotlin), 177 (Swift): sqrt(mean), whole part; sqrt(NaN) is NaN
Sqrt(x) == IF x.nan THEN NaN ELSE Num(SqrtSearch(x.v, 0, Int16Max + 1))

\* lines 153 (Kotlin coerceIn), 180 and 233-235 (Swift clamped): both leave
\* NaN as it is
CoerceIn(x, lo, hi) ==
  IF x.nan THEN NaN
  ELSE IF x.v < lo THEN Num(lo) ELSE IF x.v > hi THEN Num(hi) ELSE x

\* line 153 (Kotlin), line 180 (Swift): rms / 32767.0
NormalizeBy == Int16Max

\* lines 145-154: calculateRMS(buffer, readSize), in units of 1/NormalizeBy
\* scaled to units of 1/Int16Max, rounded down
CalculateRMS(buf, n) ==
  LET rms == Sqrt(Mean(buf, n))
  IN CoerceIn(IF rms.nan THEN NaN ELSE Num((rms.v * Int16Max) \div NormalizeBy),
              0, Int16Max)

\* lines 165-181: calculateRMS(buffer) of the Swift module: 0.0 when the
\* buffer has no Int16 data
IosCalculateRMS(buf, n, format) ==
  IF format # "int16" THEN Num(0) ELSE CalculateRMS(buf, n)


\* the 16-bit two's complement pattern of a Short
Unsigned16(x) == IF x < 0 THEN x + 65536 ELSE x

\* line 158: byteBuffer.order(ByteOrder.LITTLE_ENDIAN); the Swift module
\* copies the samples in the byte order of the machine, which is little
\* endian on every iOS device
ByteOrder == "LITTLE_ENDIAN"

\* line 160: byteBuffer.putShort(buffer[i])
PutShort(x, order) ==
  IF order = "LITTLE_ENDIAN"
  THEN <<Unsigned16(x) % 256, Unsigned16(x) \div 256>>
  ELSE <<Unsigned16(x) \div 256, Unsigned16(x) % 256>>

RECURSIVE PutShorts(_, _, _)
\* lines 157-161: the first n samples written into a buffer of n * 2 bytes
PutShorts(buf, n, order) ==
  IF n = 0 THEN <<>>
  ELSE PutShorts(buf, n - 1, order) \o PutShort(buf[n], order)

\* the padding character '=' after the 64 characters of the alphabet, each
\* character standing for its index
Pad == 64

RECURSIVE Base64Encode(_)
\* Base64.encodeToString(bytes, Base64.NO_WRAP), Data.base64EncodedString():
\* three bytes become four characters, the rest is padded, no line breaks
Base64Encode(bytes) ==
  CASE Len(bytes) = 0 -> <<>>
    [] Len(bytes) = 1 ->
         <<bytes[1] \div 4, (bytes[1] % 4) * 16, Pad, Pad>>
    [] Len(bytes) = 2 ->
         <<bytes[1] \div 4, (bytes[1] % 4) * 16 + (bytes[2] \div 16),
           (bytes[2] % 16) * 4, Pad>>
    [] OTHER ->
         <<bytes[1] \div 4, (bytes[1] % 4) * 16 + (bytes[2] \div 16),
           (bytes[2] % 16) * 4 + (bytes[3] \div 64), bytes[3] % 64>>
         \o Base64Encode(SubSeq(bytes, 4, Len(bytes)))

RECURSIVE Base64Decode(_)
\* the consumer's decoding of a base64 text
Base64Decode(text) ==
  IF Len(text) < 4 THEN <<>>
  ELSE LET c == SubSeq(text, 1, 4)
           b1 == c[1] * 4 + (c[2] \div 16)
           b2 == (c[2] % 16) * 16 + (c[3] \div 4)
           b3 == (c[3] % 4) * 64 + c[4]
       IN (CASE c[3] = Pad -> <<b1>>
             [] c[4] = Pad -> <<b1, b2>>
             [] OTHER -> <<b1, b2, b3>>)
          \o Base64Decode(SubSeq(text, 5, Len(text)))

\* lines 156-163: shortArrayToBase64(buffer, readSize)
ShortArrayToBase64(buf, n) == Base64Encode(PutShorts(buf, n, ByteOrder))

\* lines 183-188: audioBufferToBase64(buffer): "" when the buffer has no
\* Int16 data, else the base64 text of frameLength * 2 bytes
AudioBufferToBase64(buf, n, format) ==
  IF format # "int16" THEN <<>>
  ELSE Base64Encode(PutShorts(buf, n, ByteOrder))

\* lines 114-116: boosted = sample * inputGain; max(-1.0, min(1.0, boosted))
GainClamp(sample, gain) ==
  LET boosted == (sample * gain) \div One
  IN IF boosted > One THEN One
     ELSE IF boosted < 0 - One THEN 0 - One ELSE boosted


\* the number of coroutines at position p
CountPc(lp, p) == Cardinality({i \in LoopIds : lp[i].pc = p})

\* this step ends the process
Crash == pc'["main"] = "crashed"

\* this step is a read() returning a result that is not positive: a loop
\* leaves its read without holding a block
FailedRead ==
  /\ ~Crash
  /\ CountPc(loops', "read") = CountPc(loops, "read") - 1
  /\ CountPc(loops', "emit") = CountPc(loops, "emit")

\* this step is a sendEvent: a held block leaves its loop
EmitStep ==
  /\ ~Crash
  /\ CountPc(loops', "emit") = CountPc(loops, "emit") - 1

\* the age rank of the oldest block held, 0 when none is held
OldestHeld(lp) ==
  IF Holding(lp) = {} THEN 0
  ELSE CHOOSE b \in 1..MaxLoops :
         /\ \E i \in Holding(lp) : lp[i].blk = b
         /\ \A i \in Holding(lp) : lp[i].blk >= b

\* C11: the handle is stopped and released, or nulled, only when no capture
\* loop is inside an iteration on it (in read() on this handle, or holding a
\* block it has read), and no read is issued on a released handle
C11_StopWaitsForIteration ==
  [][~Crash =>
       /\ (audioRecord' # audioRecord /\ audioRecord' \in {"released", "null"}) =>
            \A i \in LoopIds :
              /\ loops[i].pc # "emit"
              /\ ~(loops[i].pc = "read" /\ loops[i].h = "cur")
       /\ (audioRecord = "released" /\ UNCHANGED audioRecord) =>
            CountPc(loops', "read") <= CountPc(loops, "read")]_vars

\* C12: a read that fails while the session is Active ends the session:
\* the flag is cleared, the handle is released and nulled and the keep-alive
\* is released
C12_FailedReadStopsSession ==
  [][(FailedRead /\ RecordingState = "Active") =>
       /\ ~isRecording'
       /\ audioRecord' = "null"
       /\ ~KeepAliveHeld']_vars

\* C14: every block that was read is sent as one event, and the events
\* leave in the order of the reads: the block a sendEvent carries is the
\* oldest block held by any capture loop
C14_EventsInReadOrder ==
  [][EmitStep =>
       \/ Holding(loops') = {}
       \/ OldestHeld(loops') > OldestHeld(loops)]_vars

\* ------------------------------------------------------------------------
\* FnSpec: the block functions applied to arguments from bounded sets
\* ------------------------------------------------------------------------

\* the arguments: a ShortArray and a read size (Kotlin), an AVAudioPCMBuffer
\* with its sample format and frameLength (Swift)
FnInit ==
  /\ LifeIdle
  /\ NoApp
  /\ permission = TRUE
  /\ platform \in {"android", "ios"}
  /\ buffer \in [1..MaxLen -> Int16Values]
  /\ readSize \in 0..MaxLen
  /\ finalFormat \in (IF platform = "android" THEN {"none"}
                      ELSE {"int16", "float32"})
  /\ tap = [format |-> "none", nch |-> 0, samples |-> <<>>]
  /\ fchan = <<>>
  /\ gi = 0
  /\ gainsUsed = {}
  /\ inputGain = One
  /\ conv = "none"
  /\ lastEvent = NoEvent
  /\ pending = 0
  /\ ppc = "idle"
  /\ ret = [fn |-> "none", v |-> 0]

fnFrame ==
  <<platform, appVars, lifeVars, buffer, readSize, finalFormat, tap, fchan, gi,
    gainsUsed, inputGain, conv, lastEvent, pending, ppc>>

\* Kotlin lines 145-154
CallCalculateRMS ==
  /\ platform = "android"
  /\ ret' = [fn |-> "calculateRMS", v |-> CalculateRMS(buffer, readSize)]
  /\ UNCHANGED fnFrame

\* Kotlin lines 156-163
CallShortArrayToBase64 ==
  /\ platform = "android"
  /\ ret' = [fn |-> "toBase64", v |-> ShortArrayToBase64(buffer, readSize)]
  /\ UNCHANGED fnFrame

\* Swift lines 165-181
IosCallCalculateRMS ==
  /\ platform = "ios"
  /\ ret' = [fn |-> "calculateRMS",
             v |-> IosCalculateRMS(buffer, readSize, finalFormat)]
  /\ UNCHANGED fnFrame

\* Swift lines 183-188
IosCallAudioBufferToBase64 ==
  /\ platform = "ios"
  /\ ret' = [fn |-> "toBase64",
             v |-> AudioBufferToBase64(buffer, readSize, finalFormat)]
  /\ UNCHANGED fnFrame

\* line 11 (Swift): SAMPLE_RATE
TargetRate == 16000

\* frame lengths of tap buffers and sample rates of the input hardware
FrameCounts == {441, 1024, 4800}
SourceRates == {16000, 44100, 48000}

\* lines 134-135: ratio = SAMPLE_RATE / buffer.format.sampleRate;
\* AVAudioFrameCount(Double(buffer.frameLength) * ratio): the conversion of
\* a Double to an unsigned integer drops the fraction
FrameCapacity(inFrames, sourceRate) == (inFrames * TargetRate) \div sourceRate

\* Swift lines 134-137: the frame capacity of the buffer that receives the
\* resampled block; convert(to:) writes at most that many frames
IosCallFrameCapacity ==
  /\ platform = "ios"
  /\ \E inFrames \in FrameCounts, sourceRate \in SourceRates :
       ret' = [fn |-> "frameCapacity",
               v |-> [inFrames |-> inFrames, sourceRate |-> sourceRate,
                      capacity |-> FrameCapacity(inFrames, sourceRate)]]
  /\ UNCHANGED fnFrame

FnNext ==
  \/ CallCalculateRMS
  \/ CallShortArrayToBase64
  \/ IosCallCalculateRMS
  \/ IosCallAudioBufferToBase64
  \/ IosCallFrameCapacity

FnSpec == FnInit /\ [][FnNext]_vars

\* C16: calculateRMS applied to a block of zero samples returns the
\* amplitude 0.0
C16_ZeroLengthBlockIsSilent ==
  (ret.fn = "calculateRMS" /\ readSize = 0) => ret.v = Num(0)

\* ------------------------------------------------------------------------
\* PipeSpec: the blocks of one running session
\* ------------------------------------------------------------------------

\* the lifecycle variables of a session that startRecording() has started
\* and that nothing has interrupted
LifeActive ==
  /\ permission = TRUE
  /\ isRecording = TRUE
  /\ audioRecord = IF platform = "android" THEN "recording" ELSE "null"
  /\ leakedRecords = 0
  /\ loops = [i \in LoopIds |->
               IF platform = "android" /\ i = 1
               THEN [pc |-> "read", cancelled |-> FALSE, h |-> "cur",
                     job |-> TRUE, blk |-> 0]
               ELSE NoLoop]
  /\ wakeLock = IF platform = "android" THEN "held" ELSE "none"
  /\ leakedLocks = 0
  /\ serviceRunning = (platform = "android")
  /\ audioFocusRequest = (platform = "android")
  /\ focusState = IF platform = "android" THEN "held" ELSE "none"
  /\ audioEngine = IF platform = "ios" THEN "running" ELSE "nil"
  /\ tapInstalled = (platform = "ios")
  /\ observer = (platform = "ios")
  /\ interrupted = FALSE
  /\ pc = [t \in Threads |-> "idle"]
  /\ result = "none"
  /\ scen = 1
  /\ hwStarts = 1
  /\ hwStops = 0
  /\ lossActive = FALSE
  /\ idleStop = FALSE
  /\ sessionNotice = "none"

PipeInit ==
  /\ platform \in {"android", "ios"}
  /\ NoApp
  /\ LifeActive
  /\ PipeIdle

\* the samples a block can carry
Samples(n, values) == [1..n -> values]

\* line 113: read(buffer, 0, buffer.size) overwrites the first readResult
\* elements of the loop's buffer and leaves the rest as they were;
\* line 115: only a positive result is processed
ReadBlock ==
  /\ platform = "android"
  /\ ppc = "idle"
  /\ \E readResult \in (0 - 1)..MaxLen :
       \E new \in Samples(IF readResult > 0 THEN readResult ELSE 0, Int16Values) :
         /\ buffer' = [i \in 1..MaxLen |->
                         IF i <= readResult THEN new[i] ELSE buffer[i]]
         /\ readSize' = readResult
         /\ ppc' = IF readResult > 0 THEN "emit" ELSE "idle"
  /\ lastEvent' = NoEvent
  /\ UNCHANGED <<platform, appVars, lifeVars, finalFormat, tap, fchan, gi, gainsUsed,
                 inputGain, conv, pending, ret>>

\* lines 116-122: encode, calculateRMS, sendEvent
ProcessBlock ==
  /\ platform = "android"
  /\ ppc = "emit"
  /\ pending < MaxPending
  /\ lastEvent' = [sent |-> TRUE,
                   data |-> ShortArrayToBase64(buffer, readSize),
                   amplitude |-> CalculateRMS(buffer, readSize)]
  /\ pending' = pending + 1
  /\ ppc' = "idle"
  /\ UNCHANGED <<platform, appVars, lifeVars, buffer, readSize, finalFormat, tap, fchan,
                 gi, gainsUsed, inputGain, conv, ret>>

\* the JavaScript listener takes one event from the queue of the bridge
Consume ==
  /\ pending > 0
  /\ pending' = pending - 1
  /\ UNCHANGED <<platform, appVars, lifeVars, buffer, readSize, finalFormat, tap, fchan,
                 gi, gainsUsed, inputGain, conv, lastEvent, ppc, ret>>

\* lines 99-102 and 107-111: the tap delivers a buffer in the format of the
\* input node: Float32 with one or more channels, or already the target
\* format (Int16, one channel); a Float32 buffer enters the gain loop
TapBlock ==
  /\ platform = "ios"
  /\ ppc = "idle"
  /\ \E n \in 1..MaxLen :
       \/ \E nch \in 1..MaxChannels : \E smp \in Samples(n, FloatValues) :
            /\ tap' = [format |-> "float32", nch |-> nch, samples |-> smp]
            /\ fchan' = [c \in 1..nch |-> smp]
            /\ gi' = 1
            /\ ppc' = "gain"
       \/ \E smp \in Samples(n, Int16Values) :
            /\ tap' = [format |-> "int16", nch |-> 1, samples |-> smp]
            /\ fchan' = <<>>
            /\ gi' = 0
            /\ ppc' = "convert"
  /\ gainsUsed' = {}
  /\ conv' = "none"
  /\ finalFormat' = "none"
  /\ readSize' = 0
  /\ buffer' = [i \in 1..MaxLen |-> 0]
  /\ lastEvent' = NoEvent
  /\ UNCHANGED <<platform, appVars, lifeVars, inputGain, pending, ret>>

\* lines 112-117, one iteration: ptr is floatChannelData.pointee, the
\* samples of the first channel; inputGain is read in every iteration
GainStep ==
  /\ platform = "ios"
  /\ ppc = "gain"
  /\ fchan' = [fchan EXCEPT ![1][gi] = GainClamp(@, inputGain)]
  /\ gainsUsed' = gainsUsed \cup {inputGain}
  /\ gi' = gi + 1
  /\ ppc' = IF gi = Len(tap.samples) THEN "convert" ELSE "gain"
  /\ UNCHANGED <<platform, appVars, lifeVars, buffer, readSize, finalFormat, tap,
                 inputGain, conv, lastEvent, pending, ret>>

\* lines 19-21: Function("setInputGain"), on the thread of the caller
SetInputGain ==
  /\ platform = "ios"
  /\ \E gain \in GainValues : inputGain' = gain
  /\ UNCHANGED <<platform, appVars, lifeVars, buffer, readSize, finalFormat, tap, fchan,
                 gi, gainsUsed, conv, lastEvent, pending, ppc, ret>>

\* AVAudioConverter, Float32 to Int16: scale by 32768 and saturate
ToInt16(s) ==
  LET x == (s * (Int16Max + 1)) \div One
  IN IF x > Int16Max THEN Int16Max
     ELSE IF x < 0 - (Int16Max + 1) THEN 0 - (Int16Max + 1) ELSE x

\* lines 129-150: finalBuffer is the tap buffer itself when it has the
\* target format, the converted buffer when the conversion succeeds, and
\* the tap buffer again when the converter or the output buffer cannot be
\* made or convert() reports an error; the converter keeps the first channel.
\* The tap buffers of PipeSpec have the target sample rate (ratio 1.0 at
\* line 134), so a converted block has the frames of the tap buffer
ConvertBlock ==
  /\ platform = "ios"
  /\ ppc = "convert"
  /\ IF tap.format = "int16"
     THEN /\ conv' = "same"
          /\ finalFormat' = "int16"
          /\ buffer' = [i \in 1..MaxLen |->
                          IF i <= Len(tap.samples) THEN tap.samples[i] ELSE 0]
     ELSE \E outcome \in {"ok", "noConverter", "noBuffer", "error"} :
            /\ conv' = outcome
            /\ finalFormat' = IF outcome = "ok" THEN "int16" ELSE "float32"
            /\ buffer' = [i \in 1..MaxLen |->
                            IF outcome = "ok" /\ i <= Len(tap.samples)
                            THEN ToInt16(fchan[1][i]) ELSE 0]
  /\ readSize' = Len(tap.samples)
  /\ ppc' = "emit"
  /\ UNCHANGED <<platform, appVars, lifeVars, tap, fchan, gi, gainsUsed, inputGain,
                 lastEvent, pending, ret>>

\* lines 152-162: calculateRMS, audioBufferToBase64, sendEvent
EmitBlock ==
  /\ platform = "ios"
  /\ ppc = "emit"
  /\ pending < MaxPending
  /\ lastEvent' = [sent |-> TRUE,
                   data |-> AudioBufferToBase64(buffer, readSize, finalFormat),
                   amplitude |-> IosCalculateRMS(buffer, readSize, finalFormat)]
  /\ pending' = pending + 1
  /\ ppc' = "idle"
  /\ UNCHANGED <<platform, appVars, lifeVars, buffer, readSize, finalFormat, tap, fchan,
                 gi, gainsUsed, inputGain, conv, ret>>

PipeNext ==
  \/ ReadBlock
  \/ ProcessBlock
  \/ Consume
  \/ TapBlock
  \/ GainStep
  \/ SetInputGain
  \/ ConvertBlock
  \/ EmitBlock

PipeSpec == PipeInit /\ [][PipeNext]_vars

\* C13: drop policy under backpressure: while an event that was sent has
\* not been consumed, a new block adds no event to the undelivered ones
C13_DropWhenUndrained ==
  [][pending > 0 => pending' <= pending]_vars

\* the conversion of the current block has failed
ConversionFailed == conv \in {"noConverter", "noBuffer", "error"}

\* C15: no onAudioStream event is sent for a block whose format conversion
\* has failed
C15_FailedConversionDropsBlock ==
  ConversionFailed => ~lastEvent.sent

\* the 16-bit samples of the block the pipeline is working on: the samples
\* of the current read (Kotlin); the tap buffer's own samples when it has
\* the target format, else the Int16 form of its first channel (Swift)
Block16 ==
  IF platform = "android" THEN [i \in 1..readSize |-> buffer[i]]
  ELSE IF tap.format = "int16" THEN tap.samples
  ELSE [i \in 1..Len(tap.samples) |-> ToInt16(fchan[1][i])]

\* min(1, sqrt(mean(sample_i^2)) / 32767) in units of 1/Int16Max
NormalizedRMS(smp) ==
  LET rms == Sqrt(Mean(smp, Len(smp)))
  IN IF rms.nan THEN NaN
     ELSE Num(IF rms.v > Int16Max THEN Int16Max ELSE rms.v)

\* C17: the amplitude of an event that was sent lies in [0.0, 1.0] and is
\* min(1, sqrt(mean(sample_i^2)) / 32767) over the 16-bit samples of its
\* block: 0.0 when all are zero, 1.0 when all are 32767 or all are -32768
C17_AmplitudeIsNormalizedRMS ==
  lastEvent.sent =>
    /\ ~lastEvent.amplitude.nan
    /\ lastEvent.amplitude.v \in 0..Int16Max
    /\ lastEvent.amplitude = NormalizedRMS(Block16)
    /\ (\A i \in DOMAIN Block16 : Block16[i] = 0) =>
         lastEvent.amplitude.v = 0
    /\ \/ \A i \in DOMAIN Block16 : Block16[i] = Int16Max
       \/ \A i \in DOMAIN Block16 : Block16[i] = 0 - (Int16Max + 1)
       => lastEvent.amplitude.v = Int16Max

\* the bytes of a block: sample i at bytes 2i (low) and 2i + 1 (high),
\* counted from 0
LittleEndianBytes(smp) ==
  [k \in 1..(2 * Len(smp)) |->
     IF k % 2 = 1 THEN Unsigned16(smp[(k + 1) \div 2]) % 256
     ELSE Unsigned16(smp[k \div 2]) \div 256]

\* C20: the data of an event that was sent is base64 text without line
\* breaks, and decoding it gives the 2 * n bytes of the n samples of its
\* block, little endian
C20_DataIsLittleEndianBase64 ==
  lastEvent.sent =>
    /\ \A k \in DOMAIN lastEvent.data : lastEvent.data[k] \in 0..Pad
    /\ Len(Base64Decode(lastEvent.data)) = 2 * Len(Block16)
    /\ Base64Decode(lastEvent.data) = LittleEndianBytes(Block16)

\* the gain loop has run over the whole Float32 block
GainDone == tap.format = "float32" /\ gi > Len(tap.samples)

\* clamp(s * g): s * g inside [-1.0, 1.0], else the nearer end
ClampedProduct(s, g) ==
  LET x == (s * g) \div One
  IN IF x > One THEN One ELSE IF x < 0 - One THEN 0 - One ELSE x

\* C18: after the gain loop every sample of every channel of the block is
\* clamp(s * g) for the sample s the tap delivered and a gain g that was
\* in force, and lies in [-1.0, 1.0]
C18_GainClampsEverySample ==
  GainDone =>
    \A c \in 1..tap.nch : \A i \in 1..Len(tap.samples) :
      /\ fchan[c][i] >= 0 - One
      /\ fchan[c][i] <= One
      /\ \E g \in gainsUsed : fchan[c][i] = ClampedProduct(tap.samples[i], g)

\* C19: all samples of one block are multiplied by the same gain: the
\* gain loop reads one value of inputGain for the whole block
C19_OneGainPerBlock ==
  GainDone => Cardinality(gainsUsed) <= 1

\* x / y rounded to the nearest integer, for x >= 0 and y > 0
RoundDiv(x, y) == (2 * x + y) \div (2 * y)

\* C21: the buffer that receives a resampled block has
\* round(inFrames * targetRate / sourceRate) frames
C21_ResampledFrameCountIsRounded ==
  ret.fn = "frameCapacity" =>
    ret.v.capacity = RoundDiv(ret.v.inFrames * TargetRate, ret.v.sourceRate)

\* the module's handle field references an object: audioRecord (Kotlin),
\* audioEngine (Swift)
HandleHeld ==
  IF platform = "android" THEN audioRecord # "null" ELSE audioEngine # "nil"

\* C22: between handlers the hardware handle is non-null exactly when the
\* state is Active or Interrupted; it is null in state Idle, also after a
\* startRecording() that failed
C22_HandleIffActiveOrInterrupted ==
  Quiescent => (HandleHeld <=> RecordingState \in {"Active", "Interrupted"})

\* the capture coroutines that were launched and have not returned
RunningLoops == {i \in LoopIds : loops[i].pc # "off"}

\* C23: at most one capture loop is running and at most one block is
\* between read() and sendEvent at any time
C23_OneLoopOneBlock ==
  /\ Cardinality(RunningLoops) <= 1
  /\ Cardinality(Holding(loops)) <= 1

\* ------------------------------------------------------------------------
\* LiveSpec: the lifecycle under fair scheduling
\* ------------------------------------------------------------------------

\* A handler that has begun runs to its end and a coroutine that can take a
\* step takes it. Calls of the application and events of the platform are
\* under no obligation to arrive
Fairness ==
  /\ WF_vars(StartKeepAlive)
  /\ WF_vars(StartRecord)
  /\ WF_vars(StartHardware)
  /\ WF_vars(StartLoop)
  /\ \A t \in Threads :
       /\ WF_vars(StopCancel(t))
       /\ WF_vars(StopHardware(t))
       /\ WF_vars(StopNull(t))
       /\ WF_vars(StopKeepAlive(t))
  /\ \A i \in LoopIds :
       /\ WF_vars(LoopCheck(i))
       /\ WF_vars(LoopRead(i))
       /\ WF_vars(LoopEmit(i))

LiveSpec == Init /\ [][Next]_vars /\ Fairness

\* line 51: Events("onAudioStream"): the names the module can give sendEvent
EventNames == {"onAudioStream"}

\* the events that tell the consumer that the session has ended
SessionEndEvents == EventNames \ {"onAudioStream"}

\* C24: when AUDIOFOCUS_LOSS ends a session that was Active, an event that
\* tells the consumer that the session has ended is sent
C24_PermanentLossNotifiesConsumer ==
  lossActive ~> (sessionNotice \in SessionEndEvents)

\* this step is the handler of AUDIOFOCUS_GAIN (Kotlin), of an
\* interruption notification of type .ended (Swift)
GainedStep ==
  IF platform = "android"
  THEN /\ focusState = "lostTransient"
       /\ (focusState' = "held" /\ UNCHANGED pc) \/ Crash
  ELSE interrupted /\ ~interrupted'

\* C25: a Gained that arrives in state Interrupted makes the state Active
C25_GainedResumesSession ==
  [][(GainedStep /\ RecordingState = "Interrupted") =>
       RecordingState' = "Active"]_vars

\* this step is the handler of AUDIOFOCUS_LOSS_TRANSIENT (Kotlin), of an
\* interruption notification of type .began (Swift)
LostTransientStep ==
  IF platform = "android"
  THEN focusState = "held" /\ focusState' = "lostTransient"
  ELSE ~interrupted /\ interrupted'

\* the blocks in flight: a coroutine is inside read() or holds the block it
\* has read
InFlight(lp) == CountPc(lp, "read") + CountPc(lp, "emit")

\* C26: LostTransient in state Active makes the state Interrupted with at
\* most one block in flight, and while the state stays Interrupted no
\* further block is read, so that at most that one block is sent before a
\* Gained arrives
C26_TransientLossPausesAtBlock ==
  [][/\ (LostTransientStep /\ RecordingState = "Active") =>
          /\ RecordingState' = "Interrupted"
          /\ InFlight(loops') <= 1
     /\ (RecordingState = "Interrupted" /\ RecordingState' = "Interrupted") =>
          InFlight(loops') <= InFlight(loops)]_vars

\* ------------------------------------------------------------------------
\* AppSpec: handleToggleRecording of the three App components
\* ------------------------------------------------------------------------

AppInit ==
  /\ platform \in {"android", "ios"}
  /\ permission \in BOOLEAN
  /\ LifeIdle
  /\ PipeIdle
  /\ AppIdle

\* part_002 lines 50-60 and 423-433, part_003 lines 42-51: a tap on the
\* record button starts a run of the handler, also while an earlier run is
\* waiting in an await. The run reads isRecording and awaits
\* stopRecordingAsync(), or requestPermissionsAsync(), or (part_003)
\* startRecordingAsync() at once
ToggleTap(h) ==
  /\ apc[h] = "idle"
  /\ permStatus' = [permStatus EXCEPT ![h] = "none"]
  /\ apc' = [apc EXCEPT ![h] =
               IF uiIsRecording THEN "stopping"
               ELSE IF app = "basic" THEN "starting" ELSE "permission"]
  /\ UNCHANGED <<platform, lifeVars, pipeVars, app, uiIsRecording,
                 visualizerData>>

\* what requestPermissions resolves with: Swift lines 23-37 (the dialog of
\* an undetermined permission can end granted); on Android "REQUESTED"
\* while the system dialog is shown (part_002 lines 67-70)
PermissionResults ==
  IF permission THEN {"GRANTED"}
  ELSE IF platform = "ios" THEN {"GRANTED", "DENIED"}
  ELSE {"REQUESTED", "DENIED"}

\* part_002 lines 60-71 and 433-435, with the catch at lines 77-81 and
\* 440-443 when the call rejects
RequestPermissionsReturn(h) ==
  /\ apc[h] = "permission"
  /\ \E st \in PermissionResults \cup {"rejected"} :
       IF st = "rejected"
       THEN /\ uiIsRecording' = FALSE
            /\ apc' = [apc EXCEPT ![h] = "idle"]
            /\ UNCHANGED <<permStatus, permission>>
       ELSE /\ permStatus' = [permStatus EXCEPT ![h] = st]
            /\ permission' = (permission \/ st = "GRANTED")
            /\ apc' = [apc EXCEPT ![h] =
                         IF st = "GRANTED" THEN "starting" ELSE "idle"]
            /\ UNCHANGED uiIsRecording
  /\ UNCHANGED <<platform, pipeVars, app, visualizerData, isRecording,
                 audioRecord, leakedRecords, loops, wakeLock, leakedLocks, serviceRunning,
                 audioFocusRequest, focusState, audioEngine, tapInstalled,
                 observer, interrupted, pc, result, scen, hwStarts, hwStops,
                 lossActive, idleStop, sessionNotice>>

\* part_002 lines 74-75 and 437-438, part_003 lines 51-52: the await of
\* startRecordingAsync() returns and the flag is set, or it rejects (on
\* Android always when the permission is missing, Kotlin line 61) and the
\* catch clears the flag
StartRecordingReturn(h) ==
  /\ apc[h] = "starting"
  /\ \E ok \in BOOLEAN :
       /\ ok => (platform = "ios" \/ permission)
       /\ uiIsRecording' = ok
  /\ apc' = [apc EXCEPT ![h] = "idle"]
  /\ UNCHANGED <<platform, lifeVars, pipeVars, app, permStatus,
                 visualizerData>>

\* part_002 lines 54-57 and 426-429, part_003 lines 46-49: the await of
\* stopRecordingAsync() returns, the flag is cleared and the history is
\* replaced by MAX_SAMPLES zeros; when the call rejects the catch clears
\* the flag and the history is left as it is
StopRecordingReturn(h) ==
  /\ apc[h] = "stopping"
  /\ uiIsRecording' = FALSE
  /\ \E ok \in BOOLEAN :
       visualizerData' = IF ok THEN ZeroHistory ELSE visualizerData
  /\ apc' = [apc EXCEPT ![h] = "idle"]
  /\ UNCHANGED <<platform, lifeVars, pipeVars, app, permStatus>>

\* the amplitudes the events carry: silence and full scale, in 1/Int16Max
AmplitudeValues == {0, Int16Max}

PushAmplitude_NoShift(data, amplitude) == Append(data, amplitude)

\* part_002 lines 39-42 and 407-410, part_003 lines 31-34: the listener
\* copies the history, shifts the oldest entry out and pushes the event's
\* amplitude
PushAmplitude(data, amplitude) ==
  LET newData == data
      shifted == IF Len(newData) = 0 THEN newData ELSE Tail(newData)
  IN Append(shifted, amplitude)

\* part_002 lines 33-43 and 403-415, part_003 lines 25-35: the listener of
\* addAudioListener is called with an onAudioStream event
OnAudioStream ==
  /\ \E amplitude \in AmplitudeValues :
       visualizerData' = PushAmplitude(visualizerData, amplitude)
  /\ UNCHANGED <<platform, lifeVars, pipeVars, app, uiIsRecording, apc,
                 permStatus>>

AppNext ==
  \/ \E h \in Handlers : ToggleTap(h)
  \/ \E h \in Handlers : RequestPermissionsReturn(h)
  \/ \E h \in Handlers : StartRecordingReturn(h)
  \/ \E h \in Handlers : StopRecordingReturn(h)
  \/ OnAudioStream
  \/ PermissionGranted

AppSpec == AppInit /\ [][AppNext]_vars

\* C27: a run of the handler calls startRecordingAsync() only when
\* requestPermissionsAsync() has returned GRANTED to it; when it returns
\* DENIED or REQUESTED the run returns and the flag stays false
C27_StartOnlyAfterGranted ==
  [][\A h \in Handlers :
       /\ (apc[h] # "starting" /\ apc'[h] = "starting") =>
            permStatus'[h] = "GRANTED"
       /\ (apc[h] = "permission"
             /\ permStatus'[h] \in {"DENIED", "REQUESTED"}) =>
            apc'[h] = "idle" /\ UNCHANGED uiIsRecording]_vars

\* stopRecording() has returned to the caller of the AsyncFunction and the
\* caller has not yet gone on
StopReturned == pc["api"] = "done" /\ result = "stopped"

\* C28: once stopRecording() has returned no onAudioStream event is sent,
\* whatever the capture loop was doing while stopRecording() ran
C28_NoEventAfterStopReturned ==
  [][StopReturned => ~EmitStep]_vars

\* this step starts the hardware stream: AudioRecord.startRecording()
\* (Kotlin lines 88 and 214) or AVAudioEngine.start() (Swift lines 104
\* and 224)
HardwareStartStep ==
  IF platform = "android"
  THEN audioRecord # "recording" /\ audioRecord' = "recording"
  ELSE audioEngine # "running" /\ audioEngine' = "running"

\* C29: a Gained event delivered while the session is Idle, or while
\* stopRecording() is running, does not set the recording flag, does not
\* start the hardware stream and does not launch a capture loop
C29_GainedInIdleDoesNothing ==
  [][(GainedStep /\ RecordingState \in {"Idle", "Stopping"}) =>
       /\ isRecording' => isRecording
       /\ ~HardwareStartStep
       /\ Cardinality(RunningLoops') <= Cardinality(RunningLoops)]_vars

\* startRecording() is running again
StartedAgain ==
  pc["api"] \in {"start_keepalive", "start_record", "start_hw", "start_loop"}

\* C30: after stopRecording() has returned every capture loop terminates,
\* unless a new startRecording() comes first: no loop goes on iterating on
\* a null or released handle
C30_LoopsEndAfterStop ==
  StopReturned ~> (RunningLoops = {} \/ StartedAgain)

\* the module's focus listener can still be called: on Android the focus
\* request of requestAudioFocus (lines 197-232) has not been abandoned, on
\* iOS the interruption observer of configureAudioSession (Swift lines
\* 70-75) is registered
FocusRegistered ==
  IF platform = "android" THEN focusState # "none" ELSE observer

\* C31: focus is held only while the session is not Idle: when no handler
\* is running and the session is Idle (after every stopRecording() and
\* every failed startRecording()) the focus is abandoned and no listener
\* of the module is left registered
C31_FocusOnlyWhileNonIdle ==
  (Quiescent /\ RecordingState = "Idle") => ~FocusRegistered

\* C32: at most one wake lock is acquired and not yet released at any
\* time, and when stopRecording() has returned none is: every acquisition
\* has been matched by a release
C32_OneWakeLock ==
  /\ HeldLocks <= 1
  /\ StopReturned => HeldLocks = 0

\* ------------------------------------------------------------------------
\* UiSpec: the App's handlers on top of the native module. The api thread
\* runs the AsyncFunction calls that the handlers make, one at a time. The
\* behaviours followed are those in which no wake lock reaches its timeout
\* and no finalizer runs; the amplitude history is followed in AppSpec
\* ------------------------------------------------------------------------

\* the App of part_002 line 24 after its first render, the module as
\* constructed
UiInit ==
  /\ AppInit
  /\ app = "gain"

\* a record button tap: the run that starts takes the first free slot
UiTap ==
  \E h \in Handlers :
    /\ \A g \in Handlers : g < h => apc[g] # "idle"
    /\ ToggleTap(h)

\* ExpoAudioStreamView.tsx lines 34-36: startRecordingAsync() of a run that
\* waits for it enters the native startRecording
UiStartCall ==
  /\ \E h \in Handlers : apc[h] = "starting"
  /\ StartGuards \/ IosStartRecording

\* ExpoAudioStreamView.tsx lines 38-40: stopRecordingAsync() of a run that
\* waits for it enters the native stopRecording
UiStopCall ==
  /\ \E h \in Handlers : apc[h] = "stopping"
  /\ StopRecordingCall \/ IosStopRecording

\* the api thread and the promise's outcome after the caller's await
\* returned, nothing else of the native module touched
UiAck ==
  /\ pc' = [pc EXCEPT !["api"] = "idle"]
  /\ result' = "none"
  /\ UNCHANGED <<pipeVars, sessionNotice, platform, permission, isRecording,
                 androidVars, iosVars, scenVars, lossActive, idleStop>>

\* part_002 lines 74-81 and 437-443, part_003 lines 51-58: the promise of
\* startRecording settles; resolved, the flag is set, rejected, the catch
\* clears it
UiStartReturn(h) ==
  /\ apc[h] = "starting"
  /\ pc["api"] = "done"
  /\ result \in StartResults
  /\ uiIsRecording' = (result = "ok")
  /\ apc' = [apc EXCEPT ![h] = "idle"]
  /\ UiAck
  /\ UNCHANGED <<app, permStatus, visualizerData>>

\* part_002 lines 54-57 and 426-429, part_003 lines 46-49: the promise of
\* stopRecording resolves (Kotlin lines 98-101, Swift lines 55-58)
UiStopReturn(h) ==
  /\ apc[h] = "stopping"
  /\ pc["api"] = "done"
  /\ result = "stopped"
  /\ uiIsRecording' = FALSE
  /\ visualizerData' = ZeroHistory
  /\ apc' = [apc EXCEPT ![h] = "idle"]
  /\ UiAck
  /\ UNCHANGED <<app, permStatus>>

UiNext ==
  \/ UiTap
  \/ \E h \in Handlers : RequestPermissionsReturn(h)
  \/ UiStartCall
  \/ UiStopCall
  \/ \E h \in Handlers : UiStartReturn(h)
  \/ \E h \in Handlers : UiStopReturn(h)
  \/ StartKeepAlive
  \/ StartRecord
  \/ StartHardware
  \/ StartLoop
  \/ \E t \in Threads : StopCancel(t)
  \/ \E t \in Threads : StopHardware(t)
  \/ \E t \in Threads : StopNull(t)
  \/ \E t \in Threads : StopKeepAlive(t)
  \/ \E i \in LoopIds : LoopCheck(i)
  \/ \E i \in LoopIds : LoopRead(i)
  \/ \E i \in LoopIds : LoopEmit(i)
  \/ FocusLoss
  \/ FocusLossTransient
  \/ FocusGain
  \/ PermissionGranted
  \/ IosInterruptionBegan
  \/ IosInterruptionEnded

UiSpec == UiInit /\ [][UiNext]_vars

\* no run of handleToggleRecording is between its tap and its return
AppQuiet == \A h \in Handlers : apc[h] = "idle"

C34_HistoryKeepsLength ==
  [][/\ Len(visualizerData) = MAX_SAMPLES
     /\ Len(visualizerData') = MAX_SAMPLES
     /\ visualizerData' # visualizerData =>
          \/ visualizerData' = ZeroHistory
          \/ \E amplitude \in AmplitudeValues :
               visualizerData' = Append(Tail(visualizerData), amplitude)]_vars

\* a recording is shown and more events than the history holds have
\* arrived: every entry is an event's amplitude
C34_Witness ==
  /\ uiIsRecording
  /\ Len(visualizerData) = MAX_SAMPLES
  /\ \A k \in 1..MAX_SAMPLES : visualizerData[k] = Int16Max

====
